---- MODULE Spec2Model ----
(***************************************************************************)
(* Model of the request client (utils/request: the axios instance          *)
(* `request` with its request/response interceptors) and of the            *)
(* authentication provider (AuthProvider: checkAuth, login, logout) of     *)
(* the IPProxy admin console.                                              *)
(*                                                                         *)
(* JavaScript values are records tagged by their typeof-like kind `t`, so  *)
(* that truthiness (`a || b`, `!a`, `if (a)`) and strict equality (`===`)  *)
(* are computed as the code computes them.  The Chinese message literals   *)
(* of the source are written as ASCII transliterations.                    *)
(***************************************************************************)
EXTENDS Bags, FiniteSets, Integers, Sequences, TLC

VARIABLES
    token,      \* localStorage item 'token': Null or a string value
    href,       \* window.location.href
    user,       \* AuthProvider state `user`
    loading,    \* AuthProvider state `loading`
    initialized,\* AuthProvider state `initialized`
    inflight,   \* bag of outbound calls sent and not yet answered
    settingsLoading, \* SettingsPage state `loading`
    ev          \* record of the last step taken (observation only)

vars == <<token, href, user, loading, initialized, inflight, settingsLoading, ev>>

(***************************************************************************)
(* Bounds                                                                  *)
(***************************************************************************)
MaxInflight == 2   \* outbound calls that may be awaiting an answer at once

(***************************************************************************)
(* JavaScript values                                                       *)
(***************************************************************************)
Undef == [t |-> "undefined"]
Null == [t |-> "null"]
Num(n) == [t |-> "number", n |-> n]
Str(s) == [t |-> "string", s |-> s]
Bool(b) == [t |-> "boolean", b |-> b]

\* ToBoolean: what `if (v)`, `!v`, `v || w` and `v && w` test
Truthy(v) ==
    CASE v.t = "undefined" -> FALSE
      [] v.t = "null"      -> FALSE
      [] v.t = "number"    -> v.n # 0
      [] v.t = "string"    -> v.s # ""
      [] v.t = "boolean"   -> v.b
      [] OTHER             -> TRUE

\* a || b
Or(a, b) == IF Truthy(a) THEN a ELSE b

\* v.f for a value on which property access does not throw
Field(v, f) == IF v.t = "object" /\ f \in DOMAIN v THEN v[f] ELSE Undef

\* property access on undefined or null throws a TypeError
AccessThrows(v) == v.t \in {"undefined", "null"}

\* v?.f
OptField(v, f) == IF AccessThrows(v) THEN Undef ELSE Field(v, f)

(***************************************************************************)
(* Message literals of the source                                          *)
(***************************************************************************)
MsgSuccess == Str("caozuo chenggong")            \* '操作成功'
MsgRequestFailed == Str("qingqiu shibai")        \* '请求失败'
MsgSessionExpired == Str("denglu yi guoqi")      \* '登录已过期，请重新登录'
MsgNetworkError == Str("wangluo cuowu")          \* '网络错误，请检查网络连接'
MsgLoginIncomplete == Str("denglu shuju bu wanzheng") \* '登录响应数据不完整'
MsgLoginFailed == Str("denglu shibai")           \* '登录失败'
MsgTypeError == Str("Cannot read properties of null")
LoginPath == "/login"
AppPath == "/"

(***************************************************************************)
(* Errors                                                                  *)
(***************************************************************************)
\* new Error(message)
NewError(message) ==
    [t |-> "object", name |-> "Error", message |-> message, response |-> Undef]

\* new ApiError(message), then error.response = response
ApiError(message, response) ==
    [t |-> "object", name |-> "ApiError", message |-> message, response |-> response]

\* the TypeError the engine raises for `data.code` when data is null
TypeError ==
    [t |-> "object", name |-> "TypeError", message |-> MsgTypeError, response |-> Undef]

(***************************************************************************)
(* Request interceptor                                                     *)
(***************************************************************************)
\* config.headers.Authorization after the request interceptor ran
RequestInterceptor(tok) ==
    IF Truthy(tok) THEN Str("Bearer " \o tok.s) ELSE Undef

(***************************************************************************)
(* Response interceptor                                                    *)
(***************************************************************************)
Resolve(v) == [kind |-> "resolve", value |-> v, removeToken |-> FALSE, hrefs |-> <<>>]
Reject(e) == [kind |-> "reject", value |-> e, removeToken |-> FALSE, hrefs |-> <<>>]

\* the three tolerated success shapes
IsSuccessBody(data) ==
    \/ Field(data, "code") = Num(0)
    \/ Field(data, "code") = Num(200)
    \/ (Truthy(Field(data, "data")) /\ ~Truthy(Field(data, "code")))

\* the canonical envelope written to response.data
Envelope(data) ==
    [t |-> "object",
     code |-> Num(0),
     message |-> Or(Or(Field(data, "message"), Field(data, "msg")), MsgSuccess),
     data |-> Field(data, "data")]

\* variant: the error is thrown without `error.response = response`
ResponseFulfilled_NoResponseAttached(response) ==
    LET data == response.data IN
    IF AccessThrows(data) THEN Reject(TypeError)
    ELSE IF IsSuccessBody(data)
         THEN Resolve([response EXCEPT !.data = Envelope(data)])
         ELSE Reject(ApiError(Or(Or(Field(data, "message"), Field(data, "msg")),
                                 MsgRequestFailed),
                              Undef))

\* variant: an application failure also sends the browser to the login page
ResponseFulfilled_RedirectsOnFailure(response) ==
    LET data == response.data IN
    IF AccessThrows(data) THEN Reject(TypeError)
    ELSE IF IsSuccessBody(data)
         THEN Resolve([response EXCEPT !.data = Envelope(data)])
         ELSE [kind |-> "reject",
               value |-> ApiError(Or(Or(Field(data, "message"), Field(data, "msg")),
                                     MsgRequestFailed),
                                  response),
               removeToken |-> FALSE, hrefs |-> <<LoginPath>>]

\* onFulfilled handler: response is [status, data]
ResponseFulfilled(response) ==
    LET data == response.data IN
    IF AccessThrows(data) THEN Reject(TypeError)
    ELSE IF IsSuccessBody(data)
         THEN Resolve([response EXCEPT !.data = Envelope(data)])
         ELSE Reject(ApiError(Or(Or(Field(data, "message"), Field(data, "msg")),
                                 MsgRequestFailed),
                              response))

\* variant: the 401 branch redirects and rejects but keeps the token
ResponseRejected_KeepsToken(error) ==
    IF Truthy(error.response)
    THEN IF error.response.status = Num(401)
         THEN [kind |-> "reject", value |-> NewError(MsgSessionExpired),
               removeToken |-> FALSE, hrefs |-> <<LoginPath>>]
         ELSE Reject(NewError(Or(Or(OptField(error.response.data, "message"),
                                    OptField(error.response.data, "msg")),
                                 MsgRequestFailed)))
    ELSE IF Truthy(error.request)
         THEN Reject(NewError(MsgNetworkError))
         ELSE Reject(error)

\* variant: every HTTP error status removes the token
ResponseRejected_ClearsOnAnyStatus(error) ==
    IF Truthy(error.response)
    THEN IF error.response.status = Num(401)
         THEN [kind |-> "reject", value |-> NewError(MsgSessionExpired),
               removeToken |-> TRUE, hrefs |-> <<LoginPath>>]
         ELSE [kind |-> "reject",
               value |-> NewError(Or(Or(OptField(error.response.data, "message"),
                                        OptField(error.response.data, "msg")),
                                     MsgRequestFailed)),
               removeToken |-> TRUE, hrefs |-> <<>>]
    ELSE IF Truthy(error.request)
         THEN Reject(NewError(MsgNetworkError))
         ELSE Reject(error)

\* variant: the HTTP error message prefers msg to message
ResponseRejected_MsgFirst(error) ==
    IF Truthy(error.response)
    THEN IF error.response.status = Num(401)
         THEN [kind |-> "reject", value |-> NewError(MsgSessionExpired),
               removeToken |-> TRUE, hrefs |-> <<LoginPath>>]
         ELSE Reject(NewError(Or(Or(OptField(error.response.data, "msg"),
                                    OptField(error.response.data, "message")),
                                 MsgRequestFailed)))
    ELSE IF Truthy(error.request)
         THEN Reject(NewError(MsgNetworkError))
         ELSE Reject(error)

\* onRejected handler: error is the failure axios produced
ResponseRejected(error) ==
    IF Truthy(error.response)
    THEN IF error.response.status = Num(401)
         THEN [kind |-> "reject", value |-> NewError(MsgSessionExpired),
               removeToken |-> TRUE, hrefs |-> <<LoginPath>>]
         ELSE Reject(NewError(Or(Or(OptField(error.response.data, "message"),
                                    OptField(error.response.data, "msg")),
                                 MsgRequestFailed)))
    ELSE IF Truthy(error.request)
         THEN Reject(NewError(MsgNetworkError))
         ELSE Reject(error)

\* what axios hands to the response interceptor for a raw outcome
Normalize(raw) ==
    IF raw.kind = "fulfilled"
    THEN ResponseFulfilled(raw.response)
    ELSE ResponseRejected(raw.error)

(***************************************************************************)
(* Raw outcomes of an outbound call                                        *)
(***************************************************************************)
User1 == [t |-> "object", id |-> 1]
User2 == [t |-> "object", id |-> 2]
Users == {User1, User2}

\* what localStorage holds when the application loads
StoredTokens == {Null, Str("t1")}

\* data of a login answer: token and user, each possibly missing
LoginPayload(tk, u) == [t |-> "object", token |-> tk, user |-> u]

LoginPayloads ==
    {LoginPayload(Str("t2"), User2),
     LoginPayload(Undef, User1),
     LoginPayload(Str("t2"), Undef)}

Body(code, data, message, msg) ==
    [t |-> "object", code |-> code, data |-> data, message |-> message, msg |-> msg]

HttpResponse(status, data) == [t |-> "object", status |-> Num(status), data |-> data]

Fulfilled(data) == [kind |-> "fulfilled", response |-> HttpResponse(200, data)]

\* axios failure with a response (status outside 2xx)
HttpFailure(status, data) ==
    [kind |-> "rejected",
     error |-> [t |-> "object", name |-> "AxiosError", message |-> Str("status"),
                response |-> HttpResponse(status, data), request |-> [t |-> "object"]]]

\* axios failure with a request and no response (unreachable backend, timeout)
NoResponse ==
    [kind |-> "rejected",
     error |-> [t |-> "object", name |-> "AxiosError", message |-> Str("Network Error"),
                response |-> Undef, request |-> [t |-> "object"]]]

\* failure raised before the request was sent
SetupFailure ==
    [kind |-> "rejected",
     error |-> [t |-> "object", name |-> "Error", message |-> Str("setup"),
                response |-> Undef, request |-> Undef]]

CodeValues == {Undef, Num(0), Num(200), Num(1)}
DataValues ==
    {Undef, Null, Num(0), Str(""), Bool(FALSE), Num(7)} \cup {[t |-> "object", id |-> 1]}
MessageValues == {Undef, Str(""), Str("m1")}
MsgValues == {Undef, Str(""), Str("m2")}
ErrorStatuses == {401, 500}

ObjectBodies ==
    {Body(c, d, m, g) : c \in CodeValues, d \in DataValues,
                        m \in MessageValues, g \in MsgValues}

ErrorBodies ==
    {Null} \cup {Body(Undef, Undef, m, g) : m \in MessageValues, g \in MsgValues}

\* bodies that are not JSON objects: the literal null, an empty body (axios
\* hands over ''), and plain text
NonObjectBodies == {Null, Str(""), Str("text")}

\* every outcome the response interceptor is exercised with
RawAll ==
    {Fulfilled(b) : b \in ObjectBodies \cup NonObjectBodies}
    \cup {HttpFailure(s, b) : s \in ErrorStatuses, b \in ErrorBodies}
    \cup {NoResponse, SetupFailure}

\* failures of any endpoint: a business failure with and without a message,
\* a null body, HTTP 401 and 500, no response, and a failure before sending
RawFailures ==
    {Fulfilled(Body(Num(1), Undef, m, Undef)) : m \in {Undef, Str("m1")}}
    \cup {Fulfilled(Null)}
    \cup {HttpFailure(s, Body(Undef, Undef, Undef, Str("m2"))) : s \in ErrorStatuses}
    \cup {NoResponse, SetupFailure}

\* answers of the current-user endpoint
RawProfile ==
    {Fulfilled(Body(Num(0), d, Undef, Undef)) : d \in Users \cup {Null}}
    \cup {Fulfilled(Body(Num(200), User1, Undef, Undef))}
    \cup RawFailures

\* answers of the login endpoint
RawLogin ==
    {Fulfilled(Body(Num(0), d, Undef, Undef)) : d \in LoginPayloads}
    \cup {Fulfilled(Body(Num(200), d, Str("ok"), Undef)) : d \in LoginPayloads}
    \cup RawFailures

\* answers of the business endpoints
RawBusiness ==
    {Fulfilled(Body(Num(0), Num(7), Undef, Undef))} \cup RawFailures

(***************************************************************************)
(* State                                                                   *)
(***************************************************************************)
NoRaw == [kind |-> "none"]
NoResult == [kind |-> "none", value |-> Undef, removeToken |-> FALSE, hrefs |-> <<>>]
NoCall == [op |-> "none", auth |-> Undef, tok0 |-> Null, user0 |-> Null]
Returned == [kind |-> "return", value |-> Undef]
Thrown(e) == [kind |-> "throw", value |-> e]
NoOutcome == [kind |-> "none", value |-> Undef]

NoSnapshot == [token |-> Null, user |-> Null, loading |-> FALSE, initialized |-> FALSE,
               taken |-> FALSE, afterLogout |-> FALSE]

\* the observation of one step: the operation, the call it sent or settled,
\* the raw outcome, what the response interceptor made of it, what the
\* operation gave its caller, and (for the synchronous operations) the
\* storage and session it started from
Event(op, call, raw, res, out, before) ==
    [op |-> op, call |-> call, raw |-> raw, res |-> res, out |-> out,
     before |-> before]

\* a call leaves through the request interceptor, which decorates it; a login
\* call also remembers the storage and user it was invoked with
Call(op, tok, usr) ==
    [op |-> op, auth |-> RequestInterceptor(token), tok0 |-> tok, user0 |-> usr]

InflightCount == BagCardinality(inflight)
Send(c) == inflight' = inflight (+) SetToBag({c})
Settle(c) == inflight' = inflight (-) SetToBag({c})

\* !!user
isAuthenticated == Truthy(user)

Init ==
    /\ token \in StoredTokens
    /\ href = AppPath
    /\ user = Null
    /\ loading = TRUE
    /\ initialized = FALSE
    /\ inflight = EmptyBag
    /\ settingsLoading = FALSE
    /\ ev = Event("none", NoCall, NoRaw, NoResult, NoOutcome, NoSnapshot)

(***************************************************************************)
(* The response interceptor's effects outside the call                     *)
(***************************************************************************)
\* localStorage after the interceptor handled the outcome
TokenAfter(res) == IF res.removeToken THEN Null ELSE token

\* window.location.href after the interceptor handled the outcome
HrefAfter(res) == IF res.hrefs = <<>> THEN href ELSE res.hrefs[Len(res.hrefs)]

(***************************************************************************)
(* A service call through the request client (api.get / api.post)          *)
(***************************************************************************)
apiCall ==
    /\ InflightCount < MaxInflight
    /\ Send(Call("api", Null, Null))
    /\ ev' = Event("apiCall", Call("api", Null, Null), NoRaw, NoResult, NoOutcome,
                   NoSnapshot)
    /\ UNCHANGED <<token, href, user, loading, initialized, settingsLoading>>

ApiSettle(Raws) ==
    \E c \in BagToSet(inflight), raw \in Raws :
        LET res == Normalize(raw) IN
        /\ c.op = "api"
        /\ Settle(c)
        /\ token' = TokenAfter(res)
        /\ href' = HrefAfter(res)
        /\ ev' = Event("apiSettle", c, raw, res,
                       IF res.kind = "resolve" THEN [kind |-> "return", value |-> res.value.data]
                       ELSE Thrown(res.value),
                       NoSnapshot)
        /\ UNCHANGED <<user, loading, initialized, settingsLoading>>

apiSettle == ApiSettle(RawBusiness)
apiSettleAny == ApiSettle(RawAll)

(***************************************************************************)
(* Session state as one value, and its write-back                          *)
(***************************************************************************)
Session == [token |-> token, user |-> user, loading |-> loading,
            initialized |-> initialized]

\* the storage and session a synchronous operation starts from, and whether
\* the step before it was a logout
Snapshot == [token |-> token, user |-> user, loading |-> loading,
             initialized |-> initialized, taken |-> TRUE,
             afterLogout |-> (ev.op = "logout")]

Commit(st) ==
    /\ user' = st.user
    /\ loading' = st.loading
    /\ initialized' = st.initialized

(***************************************************************************)
(* services/auth: getCurrentUser and login.  They go through the request   *)
(* client and hand back response.data, the canonical envelope; login       *)
(* stores the token of a complete answer.                                  *)
(***************************************************************************)
authGetCurrentUser(res) == res.value.data

authLogin(res) == res.value.data

\* localStorage after services/auth login handled the envelope
authLoginStore(tok, response) ==
    LET tk == OptField(Field(response, "data"), "token")
        u == OptField(Field(response, "data"), "user")
    IN IF Truthy(tk) /\ Truthy(u) THEN tk ELSE tok

(***************************************************************************)
(* AuthProvider.checkAuth                                                  *)
(***************************************************************************)
\* no token in storage
CheckAuthNoToken(st) ==
    [st EXCEPT !.user = Null, !.loading = FALSE, !.initialized = TRUE]

\* after the await, the call resolved with `response`
CheckAuthThen(st, response) ==
    IF Field(response, "code") = Num(0) /\ Truthy(Field(response, "data"))
    THEN [st EXCEPT !.user = Field(response, "data")]
    ELSE [st EXCEPT !.user = Null, !.token = Null]

\* variant: the catch block clears token and user for every error
CheckAuthCatch_AlwaysClears(st, error) ==
    [st EXCEPT !.token = Null, !.user = Null]

\* the catch block
CheckAuthCatch(st, error) ==
    IF OptField(Field(error, "response"), "status") = Num(401)
    THEN [st EXCEPT !.token = Null, !.user = Null]
    ELSE st

\* the finally block
CheckAuthFinally(st) == [st EXCEPT !.loading = FALSE, !.initialized = TRUE]

\* variant: the catch block rethrows what it caught
CheckAuthCompletion_Rethrows(res) ==
    IF res.kind = "reject" THEN Thrown(res.value) ELSE Returned

\* how checkAuth completes: the catch block does not rethrow; it would throw
\* only if reading error.response threw, that is for a null or undefined error
CheckAuthCompletion(res) ==
    IF res.kind = "reject" /\ AccessThrows(res.value)
    THEN Thrown(TypeError)
    ELSE Returned

\* variant: checkAuth without the `if (!token)` test
checkAuth_SkipsTokenTest ==
    IF initialized
    THEN /\ ev' = Event("checkAuth", NoCall, NoRaw, NoResult, Returned, Snapshot)
         /\ UNCHANGED <<token, href, user, loading, initialized,
                        inflight, settingsLoading>>
    ELSE /\ InflightCount < MaxInflight
         /\ Send(Call("checkAuth", Null, Null))
         /\ ev' = Event("checkAuth", Call("checkAuth", Null, Null), NoRaw, NoResult,
                        NoOutcome, Snapshot)
         /\ UNCHANGED <<token, href, user, loading, initialized, settingsLoading>>

\* variant: checkAuth without the `if (initialized)` test
checkAuth_SkipsInitializedTest ==
    IF ~Truthy(token)
    THEN /\ Commit(CheckAuthNoToken(Session))
         /\ ev' = Event("checkAuth", NoCall, NoRaw, NoResult, Returned, Snapshot)
         /\ UNCHANGED <<token, href, inflight, settingsLoading>>
    ELSE /\ InflightCount < MaxInflight
         /\ Send(Call("checkAuth", Null, Null))
         /\ ev' = Event("checkAuth", Call("checkAuth", Null, Null), NoRaw, NoResult,
                        NoOutcome, Snapshot)
         /\ UNCHANGED <<token, href, user, loading, initialized, settingsLoading>>

\* checkAuth is invoked (by the mount effect, or again later)
checkAuth ==
    IF initialized
    THEN /\ ev' = Event("checkAuth", NoCall, NoRaw, NoResult, Returned, Snapshot)
         /\ UNCHANGED <<token, href, user, loading, initialized,
                        inflight, settingsLoading>>
    ELSE IF ~Truthy(token)
    THEN /\ Commit(CheckAuthNoToken(Session))
         /\ ev' = Event("checkAuth", NoCall, NoRaw, NoResult, Returned, Snapshot)
         /\ UNCHANGED <<token, href, inflight, settingsLoading>>
    ELSE /\ InflightCount < MaxInflight
         /\ Send(Call("checkAuth", Null, Null))
         /\ ev' = Event("checkAuth", Call("checkAuth", Null, Null), NoRaw, NoResult,
                        NoOutcome, Snapshot)
         /\ UNCHANGED <<token, href, user, loading, initialized, settingsLoading>>

\* the answer to getCurrentUser arrives and checkAuth runs to its end
checkAuthResume ==
    \E c \in BagToSet(inflight), raw \in RawProfile :
        LET res == Normalize(raw)
            s0 == [Session EXCEPT !.token = TokenAfter(res)]
            s1 == IF res.kind = "resolve"
                  THEN CheckAuthThen(s0, authGetCurrentUser(res))
                  ELSE CheckAuthCatch(s0, res.value)
            s2 == CheckAuthFinally(s1)
        IN /\ c.op = "checkAuth"
           /\ Settle(c)
           /\ token' = s2.token
           /\ href' = HrefAfter(res)
           /\ Commit(s2)
           /\ ev' = Event("checkAuthResume", c, raw, res, CheckAuthCompletion(res),
                          NoSnapshot)
           /\ UNCHANGED settingsLoading

(***************************************************************************)
(* AuthProvider.login                                                      *)
(***************************************************************************)
\* the try block after the await: what it returns or throws
LoginTry(response) ==
    IF Field(response, "code") = Num(200) /\ Truthy(Field(response, "data"))
    THEN LET tk == Field(Field(response, "data"), "token")
             u == Field(Field(response, "data"), "user")
         IN IF ~Truthy(tk) \/ ~Truthy(u)
            THEN Thrown(NewError(MsgLoginIncomplete))
            ELSE [kind |-> "return", value |-> u]
    ELSE Thrown(NewError(Or(Field(response, "message"), MsgLoginFailed)))

\* variant: the catch block resets the user and keeps the token
LoginCatch_KeepsToken(st) == [st EXCEPT !.user = Null]

\* the catch block
LoginCatch(st) == [st EXCEPT !.token = Null, !.user = Null]

\* variant: the finally block leaves the loading flag as it is
LoginFinally_KeepsLoading(st) == st

\* the finally block
LoginFinally(st) == [st EXCEPT !.loading = FALSE]

\* login(username, password) is invoked
login ==
    /\ InflightCount < MaxInflight
    /\ Send(Call("login", token, user))
    /\ loading' = TRUE
    /\ ev' = Event("login", Call("login", token, user), NoRaw, NoResult, NoOutcome,
                   NoSnapshot)
    /\ UNCHANGED <<token, href, user, initialized, settingsLoading>>

\* the answer to the login call arrives and login runs to its end
loginResume ==
    \E c \in BagToSet(inflight), raw \in RawLogin :
        LET res == Normalize(raw)
            s0 == [Session EXCEPT !.token = TokenAfter(res)]
            awaited == IF res.kind = "resolve"
                       THEN [kind |-> "return", value |-> authLogin(res)]
                       ELSE Thrown(res.value)
            s1 == IF awaited.kind = "return"
                  THEN [s0 EXCEPT !.token = authLoginStore(s0.token, awaited.value)]
                  ELSE s0
            tried == IF awaited.kind = "return" THEN LoginTry(awaited.value) ELSE awaited
            s2 == IF tried.kind = "return"
                  THEN [s1 EXCEPT !.user = tried.value]
                  ELSE LoginCatch(s1)
            s3 == LoginFinally(s2)
        IN /\ c.op = "login"
           /\ Settle(c)
           /\ token' = s3.token
           /\ href' = HrefAfter(res)
           /\ Commit(s3)
           /\ ev' = Event("loginResume", c, raw, res,
                          IF tried.kind = "return" THEN Returned ELSE tried,
                          NoSnapshot)
           /\ UNCHANGED settingsLoading

(***************************************************************************)
(* AuthProvider.logout                                                     *)
(***************************************************************************)
\* variant: logout resets the state and keeps the token
Logout_KeepsToken(st) == [st EXCEPT !.user = Null, !.initialized = FALSE]

\* variant: logout flips `initialized` instead of resetting it
Logout_TogglesInitialized(st) ==
    [st EXCEPT !.token = Null, !.user = Null, !.initialized = ~st.initialized]

Logout(st) == [st EXCEPT !.token = Null, !.user = Null, !.initialized = FALSE]

\* logout, and the effect that re-runs checkAuth when `initialized` changed:
\* checkAuth returns at once when initialized, and otherwise finds the token
\* gone and takes its no-token path
logout ==
    LET s1 == Logout(Session)
        s2 == IF s1.initialized # initialized /\ ~s1.initialized
              THEN CheckAuthNoToken(s1)
              ELSE s1
    IN /\ token' = s2.token
       /\ Commit(s2)
       /\ ev' = Event("logout", NoCall, NoRaw, NoResult, Returned, Snapshot)
       /\ UNCHANGED <<href, inflight, settingsLoading>>

(***************************************************************************)
(* Call sites outside the request client                                   *)
(***************************************************************************)
\* priceApi's request interceptor: the Authorization header it sets
PriceRequestInterceptor(tok) ==
    IF Truthy(tok) THEN Str("Bearer " \o tok.s) ELSE Undef

\* a call that leaves with the given Authorization header
CallWith(op, auth) == [op |-> op, auth |-> auth, tok0 |-> Null, user0 |-> Null]

\* syncProductPrices() posts through priceApi
syncProductPrices ==
    LET c == CallWith("price", PriceRequestInterceptor(token)) IN
    /\ InflightCount < MaxInflight
    /\ Send(c)
    /\ ev' = Event("syncProductPrices", c, NoRaw, NoResult, NoOutcome, NoSnapshot)
    /\ UNCHANGED <<token, href, user, loading, initialized, settingsLoading>>

\* priceApi has no response interceptor: the answer reaches syncProductPrices
\* as axios made it, and the function returns response.data or rethrows
syncProductPricesResume ==
    \E c \in BagToSet(inflight), raw \in RawBusiness :
        /\ c.op = "price"
        /\ Settle(c)
        /\ ev' = Event("syncProductPricesResume", c, raw,
                       IF raw.kind = "fulfilled" THEN Resolve(raw.response)
                       ELSE Reject(raw.error),
                       IF raw.kind = "fulfilled"
                       THEN [kind |-> "return", value |-> raw.response.data]
                       ELSE Thrown(raw.error),
                       NoSnapshot)
        /\ UNCHANGED <<token, href, user, loading, initialized, settingsLoading>>

\* the toasts of the settings page
MsgPasswordMismatch == Str("liang ci shuru de xin mima bu yizhi") \* '两次输入的新密码不一致'
MsgPasswordChanged == Str("mima xiugai chenggong")              \* '密码修改成功'
MsgPasswordFailed == Str("mima xiugai shibai")                  \* '密码修改失败'

\* the headers option handleSubmit gives fetch holds Content-Type only
FetchAuthorization == Undef

\* fetch resolves whenever the server answered, whatever the status
FetchResolves(raw) ==
    raw.kind = "fulfilled" \/ Truthy(raw.error.response)

\* SettingsPage.handleSubmit(values), up to its await
handleSubmit ==
    \E confirmed \in BOOLEAN :
        IF ~confirmed
        THEN /\ ev' = Event("handleSubmit", NoCall, NoRaw, NoResult,
                            [kind |-> "return", value |-> MsgPasswordMismatch],
                            NoSnapshot)
             /\ UNCHANGED <<token, href, user, loading, initialized, inflight,
                            settingsLoading>>
        ELSE LET c == CallWith("fetch", FetchAuthorization) IN
             /\ InflightCount < MaxInflight
             /\ settingsLoading' = TRUE
             /\ Send(c)
             /\ ev' = Event("handleSubmit", c, NoRaw, NoResult, NoOutcome, NoSnapshot)
             /\ UNCHANGED <<token, href, user, loading, initialized>>

\* the fetch settles and handleSubmit runs to its end
handleSubmitResume ==
    \E c \in BagToSet(inflight), raw \in RawBusiness :
        /\ c.op = "fetch"
        /\ Settle(c)
        /\ settingsLoading' = FALSE
        /\ ev' = Event("handleSubmitResume", c, raw, NoResult,
                       [kind |-> "return",
                        value |-> IF FetchResolves(raw) THEN MsgPasswordChanged
                                  ELSE MsgPasswordFailed],
                       NoSnapshot)
        /\ UNCHANGED <<token, href, user, loading, initialized>>

(***************************************************************************)
(* Specifications                                                          *)
(***************************************************************************)
Next ==
    \/ checkAuth
    \/ checkAuthResume
    \/ login
    \/ loginResume
    \/ logout
    \/ apiCall
    \/ apiSettle

Spec == Init /\ [][Next]_vars

\* the request client alone, exercised with every raw outcome
NextNormalizer ==
    \/ apiCall
    \/ apiSettleAny

SpecNormalizer == Init /\ [][NextNormalizer]_vars

\* the call sites: the request client, priceApi and the settings page
NextCallSites ==
    \/ apiCall
    \/ apiSettle
    \/ syncProductPrices
    \/ syncProductPricesResume
    \/ handleSubmit
    \/ handleSubmitResume

SpecCallSites == Init /\ [][NextCallSites]_vars

(***************************************************************************)
(* Properties of the request client                                        *)
(***************************************************************************)
\* a call was answered with a 2xx response whose body is a JSON object
SettledWithBody ==
    /\ ev.op \in {"apiSettle", "checkAuthResume", "loginResume"}
    /\ ev.raw.kind = "fulfilled"
    /\ ev.raw.response.data.t = "object"

RawBody == ev.raw.response.data

\* the body has a `data` field (whatever it holds) and no `code` field
HasDataNoCode(body) == body.data # Undef /\ body.code = Undef

\* the shapes the specification names as success
NamedSuccess(body) ==
    body.code = Num(0) \/ body.code = Num(200) \/ HasDataNoCode(body)

\* the call resolved with the canonical envelope for the body
ResolvedCanonical(body) ==
    /\ ev.res.kind = "resolve"
    /\ ev.res.value.data.code = Num(0)
    /\ ev.res.value.data.data = body.data

\* C1: every body with code 0, code 200, or a data field and no code field
\* (whatever data holds) resolves with an envelope whose code is 0 and whose
\* data is the body's data.
C1_SuccessShapesResolve ==
    (SettledWithBody /\ NamedSuccess(RawBody)) => ResolvedCanonical(RawBody)

\* a field counts as present when it holds a non-empty string
Present(v) == v.t = "string" /\ v.s # ""

\* message if present, otherwise msg, otherwise the default
MessageOf(body, default) ==
    IF Present(body.message) THEN body.message
    ELSE IF Present(body.msg) THEN body.msg
    ELSE default

SettledWith401 ==
    /\ ev.op \in {"apiSettle", "checkAuthResume", "loginResume"}
    /\ ev.raw.kind = "rejected"
    /\ ev.raw.error.response # Undef
    /\ ev.raw.error.response.status = Num(401)

\* C3: a call that ends with HTTP status 401 leaves no token in storage, sets
\* the location to the login entry point exactly once, and rejects with the
\* session-expired error.
C3_UnauthorizedClearsAndRedirects ==
    SettledWith401 =>
        /\ token = Null
        /\ ev.res.hrefs = <<LoginPath>>
        /\ href = LoginPath
        /\ ev.res.kind = "reject"
        /\ ev.res.value.name = "Error"
        /\ ev.res.value.message = MsgSessionExpired

\* a business call sent with a bearer token ended with 401
C3_Witness ==
    /\ SettledWith401
    /\ ev.op = "apiSettle"
    /\ ev.call.auth = Str("Bearer t1")
    /\ token = Null
    /\ href = LoginPath

(***************************************************************************)
(* Properties of Initialize (checkAuth)                                    *)
(***************************************************************************)
\* the envelope the awaited call resolved with
ResolvedEnvelope == ev.res.value.data

\* the current-user call resolved with code 0 and a user
Accepted ==
    /\ ev.res.kind = "resolve"
    /\ ResolvedEnvelope.code = Num(0)
    /\ ResolvedEnvelope.data \in Users

\* the current-user call was rejected as session-expired, as an application
\* failure, as an HTTP failure or as a network failure
Failed ==
    /\ ev.res.kind = "reject"
    /\ ev.res.value.name \in {"Error", "ApiError"}

\* the current-user call failed, or resolved with something else than a user
NotAccepted == Failed \/ (ev.res.kind = "resolve" /\ ~Accepted)

\* C4 as stated: an Initialize whose current-user call fails for any reason,
\* or returns a non-success result, ends with no token in storage and the
\* session ANONYMOUS.
C4_FailedInitializeDiscardsToken ==
    (ev.op = "checkAuthResume" /\ NotAccepted) => (token = Null /\ ~isAuthenticated)

\* the step is the completion of Initialize's current-user call
InitializeCompletes == ev'.op = "checkAuthResume"

SessionExpired401 ==
    /\ ev'.raw.kind = "rejected"
    /\ ev'.raw.error.response # Undef
    /\ ev'.raw.error.response.status = Num(401)

\* C4 amended: session-expired (401) and a non-success result end with the
\* token removed; every other failure leaves the stored token as it was.  A
\* non-success result sets the user to null; a rejected call leaves the user
\* as it was.
C4_InitializeFailureHandling ==
    [][InitializeCompletes =>
         /\ (ev'.res.kind = "resolve" /\ ~Accepted') => (token' = Null /\ user' = Null)
         /\ (ev'.res.kind = "reject" /\ SessionExpired401) => (token' = Null /\ user' = user)
         /\ (ev'.res.kind = "reject" /\ ~SessionExpired401) => (token' = token /\ user' = user)
         /\ initialized' /\ ~loading'
      ]_vars

\* Initialize's call failed with no response and the token is still stored
C4_Witness ==
    /\ ev.op = "checkAuthResume"
    /\ ev.raw = NoResponse
    /\ ev.res.value.message = MsgNetworkError
    /\ token = Str("t1")
    /\ ~isAuthenticated

\* C8: Initialize run with no stored token sends no call and ends with the
\* session ANONYMOUS.
C8_InitializeWithoutToken ==
    [][(ev'.op = "checkAuth" /\ ~initialized /\ token = Null) =>
         /\ inflight' = inflight
         /\ user' = Null
         /\ ~Truthy(user')
         /\ initialized'
         /\ ~loading'
      ]_vars

\* Initialize ran uninitialized with no token
C8_Witness ==
    /\ ev.op = "checkAuth"
    /\ ev.before.taken
    /\ ~ev.before.initialized
    /\ ev.before.token = Null
    /\ ev.before.loading
    /\ initialized
    /\ ~loading
    /\ ~isAuthenticated

\* C9: an Initialize whose current-user call is accepted ends AUTHENTICATED
\* with the returned user; from then on, until a Logout, the session stays
\* initialized, and every further Initialize sends no call and changes nothing.
C9_InitializeOnce ==
    /\ []((ev.op = "checkAuthResume" /\ Accepted) =>
            (user = ResolvedEnvelope.data /\ isAuthenticated /\ initialized))
    /\ [][/\ (initialized /\ ev'.op # "logout") => initialized'
          /\ (initialized /\ ev'.op = "checkAuth") =>
                UNCHANGED <<token, href, user, loading, initialized, inflight>>
         ]_vars

\* Initialize was invoked again in an authenticated, initialized session
C9_Witness ==
    /\ ev.op = "checkAuth"
    /\ ev.before.taken
    /\ ev.before.initialized
    /\ ev.before.user = User2
    /\ ev.before.token = Str("t1")
    /\ user = User2
    /\ inflight = EmptyBag

(***************************************************************************)
(* Properties of Login                                                     *)
(***************************************************************************)
\* the login call resolved with a payload holding a token and a user
LoginAnswered ==
    /\ ev.op = "loginResume"
    /\ ev.res.kind = "resolve"
    /\ ResolvedEnvelope.data.t = "object"

CompletePayload(d) == Present(d.token) /\ d.user \in Users

\* C5: a Login whose call succeeds with a token and a user ends with that
\* token stored, the session AUTHENTICATED with that user, and returns.
C5_LoginSucceeds ==
    (LoginAnswered /\ CompletePayload(ResolvedEnvelope.data)) =>
        /\ token = ResolvedEnvelope.data.token
        /\ user = ResolvedEnvelope.data.user
        /\ isAuthenticated
        /\ ev.out.kind = "return"

\* C6: a Login whose call succeeds with the token or the user missing
\* rejects with the malformed-response error and leaves the stored token and
\* the user as they were when Login was invoked.
C6_MalformedLoginLeavesState ==
    (LoginAnswered /\ ~CompletePayload(ResolvedEnvelope.data)) =>
        /\ ev.out.kind = "throw"
        /\ ev.out.value.message = MsgLoginIncomplete
        /\ token = ev.call.tok0
        /\ user = ev.call.user0

\* C7: every Login that fails ends with no token in storage and the session
\* ANONYMOUS, and throws; a failure of the call itself is thrown unchanged.
C7_FailedLoginClears ==
    /\ (ev.op = "loginResume" /\ ev.out.kind # "return") =>
          (ev.out.kind = "throw" /\ token = Null /\ user = Null /\ ~isAuthenticated)
    /\ (ev.op = "loginResume" /\ ev.res.kind = "reject") =>
          (ev.out.kind = "throw" /\ ev.out.value = ev.res.value)

\* a Login invoked with a token in storage failed for lack of a response
C7_Witness ==
    /\ ev.op = "loginResume"
    /\ ev.raw = NoResponse
    /\ ev.call.tok0 = Str("t1")
    /\ ev.out.kind = "throw"
    /\ token = Null

(***************************************************************************)
(* Properties of Logout                                                    *)
(***************************************************************************)
\* C10: whatever the session was, Logout ends with no token in storage and
\* the session ANONYMOUS (user null).
C10_LogoutClears ==
    ev.op = "logout" => (token = Null /\ user = Null /\ ~isAuthenticated)

\* Logout ran in an authenticated session with a stored token
C10_Witness ==
    /\ ev.op = "logout"
    /\ ev.before.taken
    /\ ev.before.user \in Users
    /\ ev.before.token = Str("t1")
    /\ token = Null
    /\ user = Null

\* C11: a Logout that directly follows a Logout leaves the stored token, the
\* user, isAuthenticated, loading and initialized as the first Logout left them.
C11_LogoutIdempotent ==
    (ev.op = "logout" /\ ev.before.afterLogout) =>
        /\ token = ev.before.token
        /\ user = ev.before.user
        /\ Truthy(user) = Truthy(ev.before.user)
        /\ loading = ev.before.loading
        /\ initialized = ev.before.initialized

\* Logout ran twice in a row in a session that had been initialized
C11_Witness ==
    /\ ev.op = "logout"
    /\ ev.before.afterLogout
    /\ ev.before.initialized
    /\ token = Null
    /\ user = Null
    /\ initialized

(***************************************************************************)
(* Classification by the request client                                    *)
(***************************************************************************)
\* a call through the request client was settled
Settled == ev.op \in {"apiSettle", "checkAuthResume", "loginResume"}

\* the classified rejections: application failure, session expired,
\* transport failure, network failure, and the original failure
ApplicationFailure ==
    /\ ev.res.value.name = "ApiError"
    /\ ev.raw.kind = "fulfilled"
    /\ ev.res.value.response = ev.raw.response

SessionExpired == ev.res.value = NewError(MsgSessionExpired)

TransportFailure ==
    /\ ev.raw.kind = "rejected"
    /\ ev.raw.error.response # Undef
    /\ ev.res.value.name = "Error"

NetworkFailure == ev.res.value = NewError(MsgNetworkError)

OriginalFailure == ev.raw.kind = "rejected" /\ ev.res.value = ev.raw.error

\* C12: whatever the outcome of a call (any body, any status, no response,
\* a failure before sending), the call either resolves with an envelope whose
\* code is 0 or rejects with one of the classified errors.
C12_ClassificationTotal ==
    Settled =>
        \/ (ev.res.kind = "resolve" /\ ev.res.value.data.code = Num(0))
        \/ (ev.res.kind = "reject" /\
              (\/ ApplicationFailure
               \/ SessionExpired
               \/ TransportFailure
               \/ NetworkFailure
               \/ OriginalFailure))

\* C13: Initialize completes normally whatever the outcome of the
\* current-user call; it never throws or rejects to its caller.
C13_InitializeNeverThrows ==
    ev.op \in {"checkAuth", "checkAuthResume"} => ev.out.kind # "throw"

\* Initialize's call was rejected and Initialize returned normally
C13_Witness ==
    /\ ev.op = "checkAuthResume"
    /\ ev.res.kind = "reject"
    /\ ev.res.value.name = "TypeError"
    /\ ev.out.kind = "return"
    /\ initialized

(***************************************************************************)
(* Who writes the token                                                    *)
(***************************************************************************)
\* the step is a step of the request client outside the session operations
NormalizerStep == ev'.op \in {"apiCall", "apiSettle"}

\* the step settles a call whose outcome is HTTP status 401
Settles401 ==
    /\ ev'.op \in {"apiSettle", "checkAuthResume", "loginResume"}
    /\ ev'.raw.kind = "rejected"
    /\ ev'.raw.error.response # Undef
    /\ ev'.raw.error.response.status = Num(401)

\* C14: the stored token is written only by the session operations; no step
\* of the request client changes it.
C14_NormalizerOnlyReadsToken == [][NormalizerStep => token' = token]_vars

\* C14 amended: sending a call never changes the token; settling a call
\* changes it in one case only, HTTP status 401, and then by removing it;
\* the request client never stores a token.
C14_NormalizerRemovesOnlyOn401 ==
    [][/\ ev'.op = "apiCall" => token' = token
       /\ ev'.op = "apiSettle" =>
             /\ ev'.res.removeToken = Settles401
             /\ token' = IF Settles401 THEN Null ELSE token
       /\ ev'.op \in {"checkAuthResume", "loginResume"} =>
             ev'.res.removeToken = Settles401]_vars

\* a business call sent with the stored token was answered 401: the request
\* client removed the token
C14_Witness ==
    /\ ev.op = "apiSettle"
    /\ ev.call.auth = Str("Bearer t1")
    /\ ev.res.removeToken
    /\ ev.res.value = NewError(MsgSessionExpired)
    /\ token = Null

\* the step settles a call whose outcome is anything but HTTP status 401
SettlesNon401 == ev'.op = "apiSettle" /\ ~Settles401

\* C15: a call whose outcome is not HTTP status 401 (success, application
\* failure, other HTTP failure, network failure, other failure) leaves the
\* stored token and the location as they were.
C15_Non401LeavesTokenAndLocation ==
    [][SettlesNon401 =>
          /\ token' = token
          /\ href' = href
          /\ ~ev'.res.removeToken
          /\ ev'.res.hrefs = <<>>]_vars

\* an application failure was settled with the token stored and the location
\* where it was
C15_Witness ==
    /\ ev.op = "apiSettle"
    /\ ev.raw.kind = "fulfilled"
    /\ ev.res.kind = "reject"
    /\ ev.res.value.name = "ApiError"
    /\ token = Str("t1")
    /\ href = AppPath

(***************************************************************************)
(* Classification of transport failures                                    *)
(***************************************************************************)
\* message, else msg, else the default, of a body that may be null
ErrorMessageOf(body, default) ==
    IF body.t = "object" THEN MessageOf(body, default) ELSE default

\* C16: a non-401 HTTP error status rejects with an error whose message is
\* the body's message, else its msg, else the generic failure string; a
\* failure without a response rejects with the network error; any other
\* failure rejects with the original failure object.
C16_TransportFailureClassification ==
    (ev.op = "apiSettle" /\ ev.raw.kind = "rejected") =>
        /\ ev.res.kind = "reject"
        /\ IF ev.raw.error.response # Undef
           THEN ev.raw.error.response.status # Num(401) =>
                   ev.res.value =
                       NewError(ErrorMessageOf(ev.raw.error.response.data,
                                               MsgRequestFailed))
           ELSE IF ev.raw.error.request # Undef
           THEN ev.res.value = NewError(MsgNetworkError)
           ELSE ev.res.value = ev.raw.error

\* status 500 whose body has both message and msg: the message wins
C16_Witness ==
    /\ ev.op = "apiSettle"
    /\ ev.raw.kind = "rejected"
    /\ ev.raw.error.response # Undef
    /\ ev.raw.error.response.status = Num(500)
    /\ ev.raw.error.response.data = Body(Undef, Undef, Str("m1"), Str("m2"))
    /\ ev.res.value = NewError(Str("m1"))

(***************************************************************************)
(* Decoration of outbound calls                                            *)
(***************************************************************************)
\* the step sent an outbound call
Sent ==
    /\ ev.op \in {"apiCall", "checkAuth", "login", "syncProductPrices",
                  "handleSubmit"}
    /\ ev.call.op # "none"

\* C17: every outbound call sent while a token is stored carries that token
\* as a bearer Authorization header, whichever call site sends it.
C17_EveryCallCarriesToken ==
    (Sent /\ Truthy(token)) => ev.call.auth = Str("Bearer " \o token.s)

(***************************************************************************)
(* Logout while a call is in flight                                        *)
(***************************************************************************)
\* the step completes an Initialize or Login call that was in flight
StaleCompletion == ev'.op \in {"checkAuthResume", "loginResume"}

\* the step sends an outbound call of the session layer
SendsCall ==
    /\ ev'.op \in {"apiCall", "checkAuth", "login"}
    /\ ev'.call.op # "none"

\* C18: when a call of Initialize or Login completes right after Logout
\* returned, the logout is not undone: the session is still anonymous and no
\* token is stored; a call sent right after Logout, other than a new Login,
\* carries no Authorization header.
C18_LogoutNotUndone ==
    [][ev.op = "logout" =>
          /\ StaleCompletion => (~Truthy(user') /\ token' = Null)
          /\ (SendsCall /\ ev'.op # "login") => ev'.call.auth = Undef]_vars

(***************************************************************************)
(* The loading flag                                                        *)
(***************************************************************************)
\* C19: loading is true when the provider is constructed and after every
\* start of login; when the call of checkAuth or login has completed, with
\* success or with any failure, loading is false, and after checkAuth's call
\* initialized is true.
C19_LoadingAlwaysClears ==
    /\ ev.op = "none" => loading
    /\ ev.op = "login" => loading
    /\ ev.op \in {"checkAuthResume", "loginResume"} => ~loading
    /\ ev.op = "checkAuthResume" => initialized

\* a login whose call failed threw to its caller and cleared the flag
C19_Witness ==
    /\ ev.op = "loginResume"
    /\ ev.res.kind = "reject"
    /\ ev.out.kind = "throw"
    /\ ~loading

====
